---- MODULE Spec2Model ----
(***************************************************************************)
(* The OpenAI provider adapter (providers/llm/openai.py) and the normalize *)
(* step of the semantics-description pipeline                              *)
(* (pipelines/generation/semantics_description.py).                        *)
(*                                                                         *)
(* AsyncGenerator.run is a coroutine wrapped by                            *)
(*   backoff.on_exception(backoff.expo, RateLimitError,                    *)
(*                        max_time=60, max_tries=3).                       *)
(* The coroutine suspends in two places only: the await of                 *)
(* chat.completions.create inside run, and backoff's sleep between two     *)
(* tries.  A step of the model runs from one suspension to the next: the   *)
(* call (or the wake-up) up to the dispatch of the request, and the answer *)
(* up to the return, the raise or the sleep (the chunk loop included:      *)
(* `for chunk in completion` never yields to the event loop).  While the   *)
(* coroutine is suspended, or no call is running, the credential of a      *)
(* Vertex AI model may expire and other code may touch the generator.      *)
(***************************************************************************)
EXTENDS Integers, Sequences, FiniteSets, TLC

(* ------------------------------ bounds -------------------------------- *)

\* run calls made on one generator
MaxCalls == 1
\* consecutive rate-limit answers the backend may give to one call
MaxRateLimits == 4
\* chunks of one streamed completion
MaxChunks == 2
\* choices of one one-shot completion
MaxChoices == 2
\* tokens the ambient credential source hands out
MaxToken == 1
\* tokens of a reply text handed to normalize
MaxTextLen == 4

(* -------------------------- program constants ------------------------- *)

\* backoff.on_exception(..., max_tries=3)
MAX_TRIES == 3
\* backoff.on_exception(..., max_time=60)
MAX_TIME == 60

(* ------------------------------ mappings ------------------------------ *)

\* {}
EmptyDict == [k \in {} |-> 0]

\* Python's {**a, **b}: every key of a and of b, b's value where both have it
Merge(a, b) ==
  [k \in (DOMAIN a) \cup (DOMAIN b) |-> IF k \in DOMAIN b THEN b[k] ELSE a[k]]

\* dict.get(k, default) / the value dict.pop(k, default) returns
Get(d, k, default) == IF k \in DOMAIN d THEN d[k] ELSE default

SeqsUpTo(S, n) == UNION {[1..k -> S] : k \in 0..n}

GENERATION_MODEL_KWARGS ==
  [temperature |-> 0, n |-> 1, max_tokens |-> 4096,
   response_format |-> "json_object"]

SEMANTIC_MODEL_KWARGS == [response_format |-> "json_schema"]

\* model identifiers; the second one names a Vertex AI model
Models == {"gpt-4o-mini", "google/gemini-1.5-flash"}

\* model.startswith("google/")
StartsWithGoogle(m) == m = "google/gemini-1.5-flash"

(* ------------------------------- inputs ------------------------------- *)

\* OpenAILLMProvider(kwargs=...): the default, or GENERATION_MODEL_KWARGS
\* from the environment
ModelKwargsInputs == {GENERATION_MODEL_KWARGS, [n |-> 2]}

\* get_generator(generation_kwargs=...)
SharedKwargsInputs == {SEMANTIC_MODEL_KWARGS, [n |-> 2, temperature |-> 1]}

\* AsyncGenerator(generation_kwargs=...) built directly
DirectKwargsInputs == {[n |-> 2], [temperature |-> 0, n |-> 1]}

\* run(prompt, generation_kwargs=...): None or a mapping
RunKwargsInputs ==
  { [given |-> FALSE, kw |-> EmptyDict] } \cup
  { [given |-> TRUE, kw |-> d] :
      d \in {[n |-> 2, response_format |-> "json_schema"],
             [temperature |-> 1]} }

\* what the backend does to the dispatches of one call: rate_limits
\* consecutive 429 answers, then `final`; a backend that rate-limits every
\* try backoff allows is never asked for its final answer, so one final
\* answer stands for the three
BackendInputs ==
  { b \in [rate_limits : 0..MaxRateLimits, final : {"ok", "error", "timeout"}] :
      b.rate_limits < MAX_TRIES \/ b.final = "ok" }

\* time that passes between the start of one try and the start of the next:
\* next to none, or the whole of max_time
Durations == {0, MAX_TIME}

\* a ChatCompletionChunk: its choices, each a delta
ChunkInputs ==
  { [choices |-> <<>>],
    [choices |-> << [content |-> <<"a">>, finish_reason |-> "null"] >>],
    [choices |-> << [content |-> <<"b", "c">>, finish_reason |-> "stop"] >>] }

\* a choice of a ChatCompletion, before the backend numbers it
ChoiceInputs ==
  { [content |-> <<"a">>, finish_reason |-> "stop"],
    [content |-> <<"b", "c">>, finish_reason |-> "length"] }

\* the backend numbers the choices of a response from 0
Numbered(cs) ==
  [i \in 1..Len(cs) |->
     [index |-> i - 1, content |-> cs[i].content,
      finish_reason |-> cs[i].finish_reason]]

\* what create(stream=...) may hand back: a ChatCompletion for a one-shot
\* request; for a streamed one a Stream, or an object that is neither a
\* Stream nor a ChatCompletion
CompletionInputs(stream) ==
  IF stream
  THEN { [kind |-> "Stream", chunks |-> cs, choices |-> <<>>] :
           cs \in SeqsUpTo(ChunkInputs, MaxChunks) }
       \cup { [kind |-> "Other", chunks |-> <<>>, choices |-> <<>>] }
  ELSE { [kind |-> "ChatCompletion", chunks |-> <<>>, choices |-> Numbered(cs)] :
           cs \in SeqsUpTo(ChoiceInputs, MaxChoices) }

NoCompletion == [kind |-> "None", chunks |-> <<>>, choices |-> <<>>]
NoBackend == [rate_limits |-> 0, final |-> "ok"]
NoRunKwargs == [given |-> FALSE, kw |-> EmptyDict]

(* ------------------------------- state -------------------------------- *)

VARIABLES
  pc,                 \* where the adapter is: "new", "provider", "idle",
                      \* "awaiting", "sleeping", "done"
  model_kwargs,       \* OpenAILLMProvider._model_kwargs
  shared_kwargs,      \* the generation_kwargs get_generator was called with
  via_provider,       \* the generator was built by get_generator
  model,              \* AsyncGenerator.model
  generation_kwargs,  \* AsyncGenerator.generation_kwargs
  init_kwargs,        \* the generation_kwargs __init__ was given
  streaming_callback, \* AsyncGenerator.streaming_callback is not None
  vertexai_creds,     \* AsyncGenerator._vertexai_creds
  api_key,            \* AsyncGenerator.client.api_key: 0 the resolved
                      \* LLM_OPENAI_API_KEY, t > 0 the credential's token t
  issued,             \* tokens the credential source has handed out
  refresh_failed,     \* some __getattr__ so far failed to refresh
  calls,              \* run calls started
  run_kwargs,         \* the generation_kwargs argument of this call
  backend,            \* what the backend does to this call
  tries,              \* backoff's tries
  elapsed,            \* backoff's elapsed, read at the start of the try
  requests,           \* the requests this call has dispatched
  responses,          \* the answers they got
  completion,         \* the object create() returned
  callback_log,       \* the chunks streaming_callback was invoked with
  outcome,            \* "none", "ok" or the exception run raised
  replies,            \* result["replies"]
  meta,               \* result["meta"]
  norm_pc,            \* normalize: "start", "returned", "raised"
  generate,           \* normalize's argument: the generator's output
  norm_result,        \* what normalize returned
  norm_error          \* what normalize raised

adapter_vars ==
  << pc, model_kwargs, shared_kwargs, via_provider, model, generation_kwargs,
     init_kwargs, streaming_callback, vertexai_creds, api_key, issued,
     refresh_failed, calls, run_kwargs, backend, tries,
     elapsed, requests, responses, completion, callback_log, outcome,
     replies, meta >>

norm_vars == << norm_pc, generate, norm_result, norm_error >>

vars == << adapter_vars, norm_vars >>

provider_vars == << model_kwargs, shared_kwargs, via_provider >>
generator_vars ==
  << model, generation_kwargs, init_kwargs, streaming_callback >>
cred_vars == << vertexai_creds, api_key, issued, refresh_failed >>
call_vars ==
  << calls, run_kwargs, backend, tries, elapsed, requests,
     responses, completion, callback_log, outcome, replies, meta >>

NoCreds == [present |-> FALSE, valid |-> FALSE, token |-> 0]

(* ---------------------- OpenAILLMProvider ------------------------------ *)

\* get_generator: generation_kwargs={**generation_kwargs, **self._model_kwargs}
ProviderKwargs(G, M) == Merge(G, M)

(* ------------------------- AsyncGenerator.run ------------------------- *)

\* a wholesale replacement: generation_kwargs or self.generation_kwargs
EffectiveKwargsReplaced(D, O) == IF O.given THEN O.kw ELSE D

\* {**self.generation_kwargs, **(generation_kwargs or {})}
EffectiveKwargs(D, O) == Merge(D, IF O.given THEN O.kw ELSE EmptyDict)

\* the answer of the backend to the dispatch that follows `sent` earlier ones
Answer(b, sent) == IF sent < b.rate_limits THEN "rate_limit" ELSE b.final

\* one try too many: tries counted from 0
GiveUpLate(t, e) == t = MAX_TRIES + 1 \/ e >= MAX_TIME

\* one try too few: max_tries taken as the number of retries' limit
GiveUpEarly(t, e) == t = MAX_TRIES - 1 \/ e >= MAX_TIME

\* backoff: max_tries_exceeded or max_time_exceeded
GiveUp(t, e) == t = MAX_TRIES \/ e >= MAX_TIME

\* "".join(parts)
RECURSIVE Join(_)
Join(parts) ==
  IF parts = <<>> THEN <<>> ELSE Head(parts) \o Join(Tail(parts))

HasChoices(chunk) == chunk.choices # <<>>

\* _build_chunk: the first choice's delta as a StreamingChunk
BuildChunk(chunk) ==
  [content |-> chunk.choices[1].content,
   meta |-> [index |-> 0, finish_reason |-> chunk.choices[1].finish_reason]]

\* chunks.insert(0, chunk_delta): the newest chunk first
ConsumeStreamNewestFirst(stream, cb) ==
  IF cb
  THEN LET carrying == SelectSeq(stream, HasChoices)
       IN  [i \in 1..Len(carrying) |->
              BuildChunk(carrying[Len(carrying) + 1 - i])]
  ELSE <<>>

\* the loop over the stream: the chunks that carry choices, built, in
\* arrival order; each is appended and handed to the callback
ConsumeStream(stream, cb) ==
  IF cb
  THEN LET carrying == SelectSeq(stream, HasChoices)
       IN  [i \in 1..Len(carrying) |-> BuildChunk(carrying[i])]
  ELSE <<>>

\* "".join([chunk.content for chunk in chunks])
ConnectedText(chunks) == Join([i \in 1..Len(chunks) |-> chunks[i].content])

\* _connect_chunks(chunk, chunks): one message out of the accumulated chunks;
\* model and finish_reason are read from the last chunk of the stream, which
\* is None for an empty stream
ConnectChunks(stream, chunks) ==
  IF stream = <<>>
  THEN [error |-> "AttributeError", content |-> <<>>,
        meta |-> [index |-> 0, finish_reason |-> "null"]]
  ELSE IF ~HasChoices(stream[Len(stream)])
  THEN [error |-> "IndexError", content |-> <<>>,
        meta |-> [index |-> 0, finish_reason |-> "null"]]
  ELSE [error |-> "none", content |-> ConnectedText(chunks),
        meta |-> [index |-> 0,
                  finish_reason |-> stream[Len(stream)].choices[1].finish_reason]]

\* _build_message(completion, choice)
BuildMessage(choice) ==
  [content |-> choice.content,
   meta |-> [index |-> choice.index, finish_reason |-> choice.finish_reason]]

\* only completion.choices[0] is decoded
BuildMessagesFirstOnly(choices) ==
  [i \in 1..(IF choices = <<>> THEN 0 ELSE 1) |-> BuildMessage(choices[i])]

\* [self._build_message(completion, choice) for choice in completion.choices]
BuildMessages(choices) == [i \in 1..Len(choices) |-> BuildMessage(choices[i])]

\* {"replies": [...], "meta": [...]}
Result(completions, log) ==
  [outcome |-> "ok",
   replies |-> [i \in 1..Len(completions) |-> completions[i].content],
   meta |-> [i \in 1..Len(completions) |-> completions[i].meta],
   callback_log |-> log]

Raised(e, log) ==
  [outcome |-> e, replies |-> <<>>, meta |-> <<>>, callback_log |-> log]

\* the body of run after create() has returned `c`
Decode(c, kwargs, cb) ==
  IF c.kind = "Stream"
  THEN IF Get(kwargs, "n", 1) > 1
       THEN Raised("ValueError", <<>>)
       ELSE LET chunks == ConsumeStream(c.chunks, cb)
                msg == ConnectChunks(c.chunks, chunks)
            IN  IF msg.error # "none"
                THEN Raised(msg.error, chunks)
                ELSE Result(<< [content |-> msg.content, meta |-> msg.meta] >>,
                            chunks)
  ELSE IF c.kind = "ChatCompletion"
  THEN Result(BuildMessages(c.choices), <<>>)
  ELSE Result(<<>>, <<>>)

(* ------------------------------ actions ------------------------------- *)

\* AsyncGenerator.__init__
Construct(m, kw, cb) ==
  /\ model' = m
  /\ generation_kwargs' = kw
  /\ init_kwargs' = kw
  /\ streaming_callback' = cb
  /\ api_key' = 0
  /\ vertexai_creds' =
       IF StartsWithGoogle(m)
       THEN [present |-> TRUE, valid |-> FALSE, token |-> 0]
       ELSE NoCreds
  /\ UNCHANGED << issued, refresh_failed, call_vars, norm_vars >>

\* OpenAILLMProvider.__init__
ProviderInit ==
  /\ pc = "new"
  /\ \E kw \in ModelKwargsInputs, m \in Models :
       /\ model_kwargs' = kw
       /\ model' = m
  /\ pc' = "provider"
  /\ UNCHANGED << shared_kwargs, via_provider, generation_kwargs, init_kwargs,
                  streaming_callback, cred_vars, call_vars, norm_vars >>

\* OpenAILLMProvider.get_generator
GetGenerator ==
  /\ pc = "provider"
  /\ \E G \in SharedKwargsInputs :
       /\ shared_kwargs' = G
       /\ Construct(model, ProviderKwargs(G, model_kwargs), FALSE)
  /\ via_provider' = TRUE
  /\ pc' = "idle"
  /\ UNCHANGED model_kwargs

\* AsyncGenerator(...) built without the provider
DirectGenerator ==
  /\ pc = "new"
  /\ \E m \in Models, kw \in DirectKwargsInputs, cb \in BOOLEAN :
       Construct(m, kw, cb)
  /\ pc' = "idle"
  /\ UNCHANGED provider_vars

\* one try of run, up to its await: the options are merged and
\* self.client.chat.completions.create is called with them; `self.client`
\* is an attribute __init__ has set, so the lookup never gets to __getattr__
Dispatch(O, e) ==
  /\ requests' =
       Append(requests,
              [options |-> EffectiveKwargs(generation_kwargs, O),
               stream |-> streaming_callback,
               api_key |-> api_key,
               creds_valid |-> vertexai_creds.valid,
               creds_token |-> vertexai_creds.token,
               refresh_failed |-> refresh_failed,
               elapsed |-> e])
  /\ tries' = tries + 1
  /\ elapsed' = e
  /\ pc' = "awaiting"

\* run is called: backoff starts its clock and makes the first try
RunStart ==
  /\ pc = "idle"
  /\ calls < MaxCalls
  /\ calls' = calls + 1
  /\ \E O \in RunKwargsInputs, b \in BackendInputs :
       /\ run_kwargs' = O
       /\ backend' = b
       /\ Dispatch(O, 0)
  /\ UNCHANGED << provider_vars, generator_vars, cred_vars, responses,
                  completion, callback_log, outcome, replies, meta,
                  norm_vars >>

\* create raises RateLimitError and backoff gives up: it re-raises
RateLimitGiveUp ==
  /\ pc = "awaiting"
  /\ Answer(backend, Len(responses)) = "rate_limit"
  /\ GiveUp(tries, elapsed)
  /\ responses' = Append(responses, "rate_limit")
  /\ outcome' = "RateLimitError"
  /\ pc' = "done"
  /\ UNCHANGED << provider_vars, generator_vars, cred_vars, calls, run_kwargs,
                  backend, tries, elapsed, requests, completion, callback_log,
                  replies, meta, norm_vars >>

\* create raises RateLimitError and backoff sleeps before the next try
RateLimitRetry ==
  /\ pc = "awaiting"
  /\ Answer(backend, Len(responses)) = "rate_limit"
  /\ ~GiveUp(tries, elapsed)
  /\ responses' = Append(responses, "rate_limit")
  /\ pc' = "sleeping"
  /\ UNCHANGED << provider_vars, generator_vars, cred_vars, calls, run_kwargs,
                  backend, tries, elapsed, requests, completion, callback_log,
                  outcome, replies, meta, norm_vars >>

\* the sleep ends: backoff reads the clock and makes the next try
Wake ==
  /\ pc = "sleeping"
  /\ \E d \in Durations : Dispatch(run_kwargs, elapsed + d)
  /\ UNCHANGED << provider_vars, generator_vars, cred_vars, calls, run_kwargs,
                  backend, responses, completion, callback_log, outcome,
                  replies, meta, norm_vars >>

\* create raises something else: it leaves run and backoff does not catch it
RespondError ==
  /\ pc = "awaiting"
  /\ Answer(backend, Len(responses)) \in {"error", "timeout"}
  /\ responses' = Append(responses, Answer(backend, Len(responses)))
  /\ outcome' = IF Answer(backend, Len(responses)) = "timeout"
                THEN "APITimeoutError" ELSE "APIError"
  /\ pc' = "done"
  /\ UNCHANGED << provider_vars, generator_vars, cred_vars, calls, run_kwargs,
                  backend, tries, elapsed, requests, completion, callback_log,
                  replies, meta, norm_vars >>

\* create returns and the rest of run's body runs
RespondOk ==
  /\ pc = "awaiting"
  /\ Answer(backend, Len(responses)) = "ok"
  /\ responses' = Append(responses, "ok")
  /\ \E c \in CompletionInputs(streaming_callback) :
       LET r == Decode(c, requests[Len(requests)].options, streaming_callback)
       IN  /\ completion' = c
           /\ callback_log' = r.callback_log
           /\ outcome' = r.outcome
           /\ replies' = r.replies
           /\ meta' = r.meta
  /\ pc' = "done"
  /\ UNCHANGED << provider_vars, generator_vars, cred_vars, calls, run_kwargs,
                  backend, tries, elapsed, requests, norm_vars >>

\* the caller has its result or its exception
Return ==
  /\ pc = "done"
  /\ run_kwargs' = NoRunKwargs
  /\ backend' = NoBackend
  /\ tries' = 0
  /\ elapsed' = 0
  /\ requests' = <<>>
  /\ responses' = <<>>
  /\ completion' = NoCompletion
  /\ callback_log' = <<>>
  /\ outcome' = "none"
  /\ replies' = <<>>
  /\ meta' = <<>>
  /\ pc' = "idle"
  /\ UNCHANGED << provider_vars, generator_vars, cred_vars, calls,
                  norm_vars >>

\* no coroutine of the generator is running
Suspended == pc \in {"idle", "awaiting", "sleeping"}

\* the credential expires
CredExpire ==
  /\ Suspended
  /\ vertexai_creds.present /\ vertexai_creds.valid
  /\ vertexai_creds' = [vertexai_creds EXCEPT !.valid = FALSE]
  /\ UNCHANGED << pc, provider_vars, generator_vars, api_key, issued,
                  refresh_failed, call_vars, norm_vars >>

\* __getattr__, reached by a lookup of an attribute the generator does not
\* have itself, while the credential is invalid: refresh() renews it in place
\* and its token becomes the client's api_key
GetAttrRefreshed ==
  /\ Suspended
  /\ vertexai_creds.present /\ ~vertexai_creds.valid
  /\ issued < MaxToken
  /\ issued' = issued + 1
  /\ vertexai_creds' = [present |-> TRUE, valid |-> TRUE, token |-> issued + 1]
  /\ api_key' = issued + 1
  /\ UNCHANGED << pc, provider_vars, generator_vars, refresh_failed,
                  call_vars, norm_vars >>

\* __getattr__, the same, but refresh() raises or leaves the credential
\* invalid ("Unable to refresh auth"): the lookup fails and nothing is kept
GetAttrFailed ==
  /\ Suspended
  /\ vertexai_creds.present /\ ~vertexai_creds.valid
  /\ refresh_failed' = TRUE
  /\ UNCHANGED << pc, provider_vars, generator_vars, vertexai_creds, api_key,
                  issued, call_vars, norm_vars >>

Init ==
  /\ pc = "new"
  /\ model_kwargs = EmptyDict
  /\ shared_kwargs = EmptyDict
  /\ via_provider = FALSE
  /\ model = "gpt-4o-mini"
  /\ generation_kwargs = EmptyDict
  /\ init_kwargs = EmptyDict
  /\ streaming_callback = FALSE
  /\ vertexai_creds = NoCreds
  /\ api_key = 0
  /\ issued = 0
  /\ refresh_failed = FALSE
  /\ calls = 0
  /\ run_kwargs = NoRunKwargs
  /\ backend = NoBackend
  /\ tries = 0
  /\ elapsed = 0
  /\ requests = <<>>
  /\ responses = <<>>
  /\ completion = NoCompletion
  /\ callback_log = <<>>
  /\ outcome = "none"
  /\ replies = <<>>
  /\ meta = <<>>
  /\ norm_pc = "start"
  /\ generate = [replies |-> <<>>]
  /\ norm_result = EmptyDict
  /\ norm_error = "none"

Next ==
  \/ ProviderInit
  \/ GetGenerator
  \/ DirectGenerator
  \/ RunStart
  \/ RateLimitGiveUp
  \/ RateLimitRetry
  \/ Wake
  \/ RespondError
  \/ RespondOk
  \/ Return
  \/ CredExpire
  \/ GetAttrRefreshed
  \/ GetAttrFailed

Spec == Init /\ [][Next]_vars

(* --------------- semantics_description.normalize ---------------------- *)

\* a reply text, as a sequence of lexical tokens: the punctuation of a JSON
\* object, the key "models" with its colon, three arrays of models (named by
\* their "name"), a space, a newline, and a character no JSON text can hold
\* outside a string
TextTokens == {"{", "}", "models:", "[]", "[A]", "[A,B]", " ", "\n", "x"}

Texts == SeqsUpTo(TextTokens, MaxTextLen)

\* normalize's argument: {"replies": [...]} with no reply or one
GenerateInputs == { [replies |-> rs] : rs \in {<<>>} \cup {<< t >> : t \in Texts} }

\* text.replace("\n", " ")
ReplaceNewlines(t) == [i \in 1..Len(t) |-> IF t[i] = "\n" THEN " " ELSE t[i]]

\* text.split(): the maximal runs without whitespace
RECURSIVE Split(_, _, _)
Split(t, word, words) ==
  IF t = <<>>
  THEN IF word = <<>> THEN words ELSE Append(words, word)
  ELSE IF Head(t) \in {" ", "\n"}
  THEN Split(Tail(t), <<>>, IF word = <<>> THEN words ELSE Append(words, word))
  ELSE Split(Tail(t), Append(word, Head(t)), words)

\* " ".join(words)
RECURSIVE JoinWithSpace(_)
JoinWithSpace(words) ==
  IF words = <<>> THEN <<>>
  ELSE IF Len(words) = 1 THEN words[1]
  ELSE words[1] \o << " " >> \o JoinWithSpace(Tail(words))

IsSpace(tok) == tok \in {" ", "\n"}
NotSpace(tok) == ~IsSpace(tok)

\* text.strip()
RECURSIVE Strip(_)
Strip(t) ==
  IF t = <<>> THEN t
  ELSE IF IsSpace(Head(t)) THEN Strip(Tail(t))
  ELSE IF IsSpace(t[Len(t)]) THEN Strip(SubSeq(t, 1, Len(t) - 1))
  ELSE t

\* the names of the models of an array token
ModelsOf(tok) ==
  IF tok = "[A]" THEN << "A" >>
  ELSE IF tok = "[A,B]" THEN << "A", "B" >>
  ELSE <<>>

JsonError == [ok |-> FALSE, kind |-> "none", has_models |-> FALSE, models |-> <<>>]

\* {}
EmptyObject == [ok |-> TRUE, kind |-> "dict", has_models |-> FALSE, models |-> <<>>]

\* orjson.loads: whitespace between tokens is skipped; the text must be one
\* JSON value, here an object (empty, or with the key "models") or an array
Loads(t) ==
  LET toks == SelectSeq(t, NotSpace)
  IN  IF toks = << "{", "}" >> THEN EmptyObject
      ELSE IF Len(toks) = 4 /\ toks[1] = "{" /\ toks[2] = "models:"
                /\ toks[3] \in {"[]", "[A]", "[A,B]"} /\ toks[4] = "}"
      THEN [ok |-> TRUE, kind |-> "dict", has_models |-> TRUE,
            models |-> ModelsOf(toks[3])]
      ELSE IF Len(toks) = 1 /\ toks[1] \in {"[]", "[A]", "[A,B]"}
      THEN [ok |-> TRUE, kind |-> "list", has_models |-> FALSE,
            models |-> <<>>]
      ELSE JsonError

\* normalize.wrapper: the text with its whitespace normalised, decoded; {} when
\* orjson raises JSONDecodeError
Wrapper(text) ==
  LET spaced == ReplaceNewlines(text)
      joined == JoinWithSpace(Split(spaced, <<>>, <<>>))
      loaded == Loads(Strip(joined))
  IN  IF loaded.ok THEN loaded ELSE EmptyObject

\* {model["name"]: model for model in models}
ByName(models) ==
  [nm \in {models[i] : i \in 1..Len(models)} |-> [name |-> nm]]

\* normalize(generate): what it returns, or what it raises
NormalizeResult(g) ==
  IF g.replies = <<>>
  THEN [error |-> "IndexError", value |-> EmptyDict]
  ELSE LET normalized == Wrapper(g.replies[1])
       IN  IF normalized.kind = "list"
           THEN [error |-> "TypeError", value |-> EmptyDict]
           ELSE IF ~normalized.has_models
           THEN [error |-> "KeyError", value |-> EmptyDict]
           ELSE [error |-> "none", value |-> ByName(normalized.models)]

\* the pipeline's normalize step
Normalize ==
  /\ norm_pc = "start"
  /\ LET r == NormalizeResult(generate)
     IN  /\ norm_error' = r.error
         /\ norm_result' = r.value
         /\ norm_pc' = IF r.error = "none" THEN "returned" ELSE "raised"
  /\ UNCHANGED << generate, adapter_vars >>

InitNorm ==
  /\ pc = "new"
  /\ model_kwargs = EmptyDict
  /\ shared_kwargs = EmptyDict
  /\ via_provider = FALSE
  /\ model = "gpt-4o-mini"
  /\ generation_kwargs = EmptyDict
  /\ init_kwargs = EmptyDict
  /\ streaming_callback = FALSE
  /\ vertexai_creds = NoCreds
  /\ api_key = 0
  /\ issued = 0
  /\ refresh_failed = FALSE
  /\ calls = 0
  /\ run_kwargs = NoRunKwargs
  /\ backend = NoBackend
  /\ tries = 0
  /\ elapsed = 0
  /\ requests = <<>>
  /\ responses = <<>>
  /\ completion = NoCompletion
  /\ callback_log = <<>>
  /\ outcome = "none"
  /\ replies = <<>>
  /\ meta = <<>>
  /\ norm_pc = "start"
  /\ generate \in GenerateInputs
  /\ norm_result = EmptyDict
  /\ norm_error = "none"

NextNorm == Normalize

SpecNorm == InitNorm /\ [][NextNorm]_vars

(* ------------------------------ claims -------------------------------- *)

InCall == pc \in {"awaiting", "sleeping", "done"}

\* the override mapping of the running call ({} when none was given)
Overrides == IF run_kwargs.given THEN run_kwargs.kw ELSE EmptyDict

\* the number of candidates the running call asks for
Candidates ==
  IF "n" \in DOMAIN Overrides THEN Overrides["n"]
  ELSE IF "n" \in DOMAIN init_kwargs THEN init_kwargs["n"] ELSE 1

LastRequest == requests[Len(requests)]

\* C1: a call with a streaming callback and effective n > 1 dispatches no
\* request at any point, and ends with the configuration error
C1_StreamingManyNeverDispatched ==
  (InCall /\ streaming_callback /\ Candidates > 1)
    => /\ requests = <<>>
       /\ pc = "done" => outcome = "ValueError"

\* C2: the first request of a call on a credential-based generator leaves
\* with a valid credential whose token is the client's api_key (the
\* credential was valid, or was refreshed before the dispatch)
C2_RefreshedBeforeDispatch ==
  (vertexai_creds.present /\ requests # <<>>)
    => /\ requests[1].creds_valid
       /\ requests[1].api_key = requests[1].creds_token

\* C9: after a refresh has failed, a later call still dispatches only with a
\* valid credential, i.e. it has refreshed again while it was invalid
C9_RefreshAttemptedAgain ==
  (vertexai_creds.present /\ requests # <<>> /\ requests[1].refresh_failed)
    => requests[1].creds_valid

\* C3: at most 3 dispatches per call; every dispatch but the last was
\* answered by a rate limit; an error or a timeout ends the call at once with
\* that error; and a call whose every try was rate-limited ends with the
\* rate-limit error
C3_RetryPolicy ==
  /\ Len(requests) <= MAX_TRIES
  /\ \A i \in 1..(Len(requests) - 1) : responses[i] = "rate_limit"
  /\ \A i \in 1..Len(responses) :
       responses[i] \in {"error", "timeout"}
         => /\ pc = "done"
            /\ i = Len(requests)
            /\ outcome = IF responses[i] = "timeout"
                         THEN "APITimeoutError" ELSE "APIError"
  /\ (pc = "done" /\ \A i \in 1..Len(responses) : responses[i] = "rate_limit")
       => outcome = "RateLimitError"

C3_Witness ==
  /\ pc = "done"
  /\ Len(requests) = MAX_TRIES
  /\ outcome = "RateLimitError"
  /\ requests[MAX_TRIES].elapsed < MAX_TIME

\* every retry of the call was decided within the time budget
InBudget ==
  \A i \in 1..Len(requests) : i < MAX_TRIES => requests[i].elapsed < MAX_TIME

\* C4, as stated: three rate-limit answers and then a success, within the
\* budget, give the successful result with exactly 3 dispatches
C4_ThreeRateLimitsThenSuccess ==
  (pc = "done" /\ backend.rate_limits = 3 /\ backend.final = "ok" /\ InBudget)
    => outcome = "ok" /\ Len(requests) = 3

\* C4, amended: two rate-limit answers and then a success, within the budget,
\* make exactly 3 dispatches and run decodes the third answer (its result is
\* returned unless decoding it raises); a third rate-limit answer ends the
\* call with the rate-limit error, whatever the backend would answer next
C4_TwoRateLimitsThenSuccess ==
  /\ (pc = "done" /\ backend.rate_limits = 2 /\ backend.final = "ok" /\ InBudget)
       => /\ Len(requests) = 3
          /\ responses = << "rate_limit", "rate_limit", "ok" >>
          /\ outcome # "RateLimitError"
          /\ completion.kind \in {"ChatCompletion", "Other"} => outcome = "ok"
  /\ (pc = "done" /\ backend.rate_limits >= 3 /\ InBudget)
       => outcome = "RateLimitError" /\ Len(requests) = 3

C4_Witness ==
  /\ pc = "done"
  /\ backend.rate_limits = 2 /\ backend.final = "ok"
  /\ InBudget
  /\ outcome = "ok"
  /\ replies # <<>>

\* the contents of the chunks of a stream, concatenated in arrival order
RECURSIVE TextOf(_)
TextOf(stream) ==
  IF stream = <<>> THEN <<>>
  ELSE stream[1].choices[1].content \o TextOf(Tail(stream))

AllCarryContent(stream) == \A i \in 1..Len(stream) : stream[i].choices # <<>>

C7_OptionsMerged ==
  /\ \A i \in 1..Len(requests) :
       LET sent == requests[i].options
       IN  /\ DOMAIN sent = (DOMAIN init_kwargs) \cup (DOMAIN Overrides)
           /\ \A k \in DOMAIN Overrides : sent[k] = Overrides[k]
           /\ \A k \in (DOMAIN init_kwargs) \ (DOMAIN Overrides) :
                sent[k] = init_kwargs[k]
  /\ pc \notin {"new", "provider"} => generation_kwargs = init_kwargs

C7_Witness ==
  /\ pc = "done"
  /\ requests # <<>>
  /\ run_kwargs.given
  /\ \E k \in (DOMAIN init_kwargs) \cap (DOMAIN Overrides) :
       init_kwargs[k] # Overrides[k]
  /\ (DOMAIN init_kwargs) \ (DOMAIN Overrides) # {}
  /\ (DOMAIN Overrides) \ (DOMAIN init_kwargs) # {}

\* C8: a one-shot answer with k choices gives k replies and k meta entries,
\* reply i and meta i from choice i; a successful return has as many replies
\* as meta entries
C8_OneReplyPerChoice ==
  /\ (pc = "done" /\ completion.kind = "ChatCompletion")
       => /\ outcome = "ok"
          /\ Len(replies) = Len(completion.choices)
          /\ Len(meta) = Len(completion.choices)
          /\ \A i \in 1..Len(completion.choices) :
               /\ replies[i] = completion.choices[i].content
               /\ meta[i].index = completion.choices[i].index
               /\ meta[i].finish_reason = completion.choices[i].finish_reason
  /\ outcome = "ok" => Len(replies) = Len(meta)

C8_Witness ==
  /\ pc = "done"
  /\ completion.kind = "ChatCompletion"
  /\ Len(completion.choices) = 2
  /\ completion.choices[1].content # completion.choices[2].content
  /\ Len(replies) = 2

\* C10: a generator built by get_generator(generation_kwargs=G) has G's value
\* for every key of G; with the pipeline's G its requests carry the
\* json_schema response_format unless the call overrides it
C10_SharedKwargsWin ==
  (via_provider /\ pc \notin {"new", "provider"})
    => /\ \A k \in DOMAIN shared_kwargs :
            generation_kwargs[k] = shared_kwargs[k]
       /\ \A k \in (DOMAIN model_kwargs) \ (DOMAIN shared_kwargs) :
            generation_kwargs[k] = model_kwargs[k]
       /\ \A i \in 1..Len(requests) :
            (shared_kwargs = SEMANTIC_MODEL_KWARGS
               /\ "response_format" \notin DOMAIN Overrides)
              => requests[i].options["response_format"] = "json_schema"

\* the reply is JSON text
ValidJson(text) == Loads(text).ok

\* C5: a first reply that is not valid JSON makes normalize return the empty
\* mapping, and raise nothing
C5_MalformedYieldsEmpty ==
  (/\ norm_pc # "start"
   /\ generate.replies # <<>>
   /\ ~ValidJson(generate.replies[1]))
    => /\ norm_pc = "returned"
       /\ norm_error = "none"
       /\ norm_result = EmptyDict

====
